---------------------------- MODULE Spec2Model ----------------------------
(***************************************************************************)
(* A model of therror (lib/therror.js, version 4.1.1): the argument        *)
(* normalizer getArguments, the Therror constructor, the lazily rendered   *)
(* message template and the mixins that wrap the constructor.              *)
(*                                                                         *)
(* JavaScript values are records tagged by t:                              *)
(*   undef | num | str | obj (a plain mapping) | err (a native Error) |    *)
(*   therror (an instance) | raise (an exception that was thrown).         *)
(* A string is a sequence of tokens; the token "${k}" is the placeholder   *)
(* of property k, " " is white space, any other token is literal text.     *)
(* A mapping is a sequence of <<key, value>> pairs in insertion order.     *)
(***************************************************************************)
EXTENDS Integers, Sequences, FiniteSets, TLC

VARIABLES inst,    \* the instance under inspection (or NoInst, or a raise)
          call,    \* the constructor call that produced it
          last,    \* the last operation applied and what it returned
          bus,     \* what the process-wide emitter published, in order
          logger,  \* Therror.Loggable.logger, the process-wide default logger
          namespaces, \* therror._namespaces of the 0.x API
          published,  \* the 'create' events the last factory call emitted
          allocated   \* how many errors the 0.x factories have created

vars == <<inst, call, last, bus, logger, namespaces, published, allocated>>

(***************************************************************************)
(* Bounds of the model.                                                    *)
(***************************************************************************)
MaxFacetArgs == 4
MaxServiceArgs == 2
MaxRegistryArgs == 2
MaxArgs == 3
MaxCreated == 3
MaxTemplateArgs == 2

(***************************************************************************)
(* Values.                                                                 *)
(***************************************************************************)
Undef == [t |-> "undef"]
NumV(n) == [t |-> "num", n |-> n]
StrV(s) == [t |-> "str", s |-> s]
ObjV(kv) == [t |-> "obj", kv |-> kv]
ErrV(m) == [t |-> "err", name |-> StrV(<<"Error">>), msg |-> StrV(m)]
Raise(e) == [t |-> "raise", err |-> e]
NoInst == [t |-> "none"]

IsRaise(v) == v.t = "raise"
IsString(v) == v.t = "str"
IsError(v) == v.t \in {"err", "therror"}
IsObject(v) == v.t \in {"obj", "err", "therror"}
IsUndefined(v) == v.t = "undef"

\* JavaScript truthiness, as used by || and by if (...)
Truthy(v) ==
    CASE v.t = "undef" -> FALSE
      [] v.t = "num" -> v.n # 0
      [] v.t = "str" -> Len(v.s) > 0
      [] OTHER -> TRUE

\* a || b
Or(a, b) == IF IsRaise(a) \/ Truthy(a) THEN a ELSE b

\* arguments[i - 1]: reading past the end of an array gives undefined
At(seq, i) == IF i >= 1 /\ i <= Len(seq) THEN seq[i] ELSE Undef

\* Array.prototype.slice.call(seq, 1)
Slice1(seq) == IF Len(seq) = 0 THEN <<>> ELSE Tail(seq)

(***************************************************************************)
(* Mappings: insertion-ordered key/value pairs.                            *)
(***************************************************************************)
HasKey(kv, k) == \E i \in 1..Len(kv) : kv[i][1] = k

Get(kv, k) ==
    IF HasKey(kv, k)
    THEN kv[CHOOSE i \in 1..Len(kv) : kv[i][1] = k][2]
    ELSE Undef

\* mutant: a key already present keeps its first value
PutKeepFirst(kv, k, v) ==
    IF HasKey(kv, k) THEN kv ELSE Append(kv, <<k, v>>)

\* obj[k] = v: an existing key keeps its place, a new key goes last
Put(kv, k, v) ==
    IF HasKey(kv, k)
    THEN [i \in 1..Len(kv) |-> IF kv[i][1] = k THEN <<k, v>> ELSE kv[i]]
    ELSE Append(kv, <<k, v>>)

Keys(kv) == [i \in 1..Len(kv) |-> kv[i][1]]


(***************************************************************************)
(* Strings and the template engine (lodash _.template, ES delimiters).     *)
(***************************************************************************)
Placeholders == {"${a}", "${b}", "${name}", "${statusCode}"}

PlaceholderKey(tok) ==
    CASE tok = "${a}" -> "a"
      [] tok = "${b}" -> "b"
      [] tok = "${name}" -> "name"
      [] tok = "${statusCode}" -> "statusCode"
      [] OTHER -> ""

\* String.prototype.trim on tokens
RECURSIVE TrimLeft(_)
TrimLeft(s) == IF Len(s) > 0 /\ Head(s) = " " THEN TrimLeft(Tail(s)) ELSE s

RECURSIVE TrimRight(_)
TrimRight(s) ==
    IF Len(s) > 0 /\ s[Len(s)] = " "
    THEN TrimRight(SubSeq(s, 1, Len(s) - 1))
    ELSE s

Trim(s) == TrimRight(TrimLeft(s))

\* Error.prototype.toString
ErrorToString(name, msg) ==
    IF msg = <<>> THEN name
    ELSE IF name = <<>> THEN msg
    ELSE name \o <<": ">> \o msg

\* String(v) of a value that is not a Therror instance
ToText(v) ==
    CASE v.t = "str" -> v.s
      [] v.t = "num" -> <<ToString(v.n)>>
      [] v.t = "obj" -> <<"[object Object]">>
      [] v.t = "err" -> ErrorToString(v.name.s, v.msg.s)
      [] OTHER -> <<>>

\* an interpolated value: ((__t = (x)) == null ? '' : __t)
Interpolated(v) == ToText(v)

HasFacet(self, f) == \E i \in 1..Len(self.chain) : self.chain[i].f = f

FacetParam(self, f) ==
    self.chain[CHOOSE i \in 1..Len(self.chain) : self.chain[i].f = f].p

\* the scope lodash opens with `with (obj)`: own properties first, then what
\* the prototype chain of the instance offers; anything else is not defined
InScope(self, k) ==
    \/ HasKey(self.props, k)
    \/ k = "name"
    \/ (k = "statusCode" /\ HasFacet(self, "HTTP"))

ScopeValue(self, k) ==
    IF HasKey(self.props, k) THEN Get(self.props, k)
    ELSE IF k = "name" THEN self.name
    ELSE FacetParam(self, "HTTP")

RECURSIVE RenderTokens(_, _)
RenderTokens(tokens, self) ==
    IF tokens = <<>> THEN StrV(<<>>)
    ELSE LET tok == Head(tokens)
             rest == RenderTokens(Tail(tokens), self)
         IN  IF tok \in Placeholders /\ ~InScope(self, PlaceholderKey(tok))
             THEN Raise("ReferenceError")
             ELSE IF IsRaise(rest) THEN rest
             ELSE IF tok \in Placeholders
             THEN StrV(Interpolated(ScopeValue(self, PlaceholderKey(tok))) \o rest.s)
             ELSE StrV(<<tok>> \o rest.s)

\* compiled(self).trim()
Render(tpl, self) ==
    LET r == RenderTokens(tpl, self)
    IN  IF IsRaise(r) THEN r ELSE StrV(Trim(r.s))

\* lodash toString(v), which _.template applies to its argument: a Therror
\* instance answers with Error.prototype.toString, which reads its message
ToStr(v) ==
    IF v.t = "therror"
    THEN LET m == Render(v.tpl, v)
         IN  IF IsRaise(m) THEN m ELSE StrV(ErrorToString(ToText(v.name), m.s))
    ELSE StrV(ToText(v))

(***************************************************************************)
(* Instance members. Each gives the instance afterwards and what the call  *)
(* returned; a raise leaves the instance as it was.                        *)
(***************************************************************************)
\* rendering that succeeded replaces the template
Rendered(self, r) == IF IsRaise(r) THEN self ELSE [self EXCEPT !.tpl = r.s]

\* mutant: the first successful read freezes the message
getMessageCaching(self) ==
    [self |-> Rendered(self, Render(self.tpl, self)),
     ret |-> Render(self.tpl, self)]

\* get message()
getMessage(self) == [self |-> self, ret |-> Render(self.tpl, self)]

\* mutant: the assignment stores the string rendered at that moment
setMessageRendered(self, value) ==
    [self |-> Rendered(self, Render(ToText(value), self)), ret |-> Undef]

\* set message(value): this[templateSymbol] = _.template(value)
setMessage(self, value) ==
    LET text == ToStr(value)
    IN  IF IsRaise(text)
        THEN [self |-> self, ret |-> text]
        ELSE [self |-> [self EXCEPT !.tpl = text.s], ret |-> Undef]

\* mutant: parse keeps its argument as the template
parseStoring(self, tpl) ==
    [self |-> [self EXCEPT !.tpl = ToText(tpl)],
     ret |-> Render(ToText(tpl), self)]

\* parse(tpl)
parse(self, tpl) ==
    LET text == ToStr(tpl)
    IN  [self |-> self,
         ret |-> IF IsRaise(text) THEN text ELSE Render(text.s, self)]

\* mutant: cause() unwinds a wrapped Therror down to what it wraps
causeRoot(self) ==
    [self |-> self,
     ret |-> IF self.cause.t = "therror" THEN self.cause.cause ELSE self.cause]

\* cause()
cause(self) == [self |-> self, ret |-> self.cause]

\* v.message, for any value v
MemberMessage(v) ==
    CASE v.t = "obj" -> Get(v.kv, "message")
      [] v.t = "err" -> v.msg
      [] v.t = "therror" -> getMessage(v).ret
      [] v.t = "undef" -> Raise("TypeError")
      [] OTHER -> Undef

(***************************************************************************)
(* getArguments: the argument normalizer.                                  *)
(***************************************************************************)
\* mutant: only an Error instance is taken for a cause
getArgumentsErrorOnly(originalArguments) ==
    LET shift == IsError(At(originalArguments, 1))
        args == IF shift THEN Slice1(originalArguments) ELSE originalArguments
        c == IF shift THEN At(originalArguments, 1) ELSE Undef
    IN  IF IsString(At(args, 1)) \/ IsString(At(args, 2))
        THEN [cause |-> c, message |-> At(args, 1), properties |-> Slice1(args)]
        ELSE IF IsObject(At(args, 1))
        THEN [cause |-> c, message |-> MemberMessage(args[1]), properties |-> args]
        ELSE [cause |-> c,
              message |-> IF IsUndefined(At(args, 1))
                          THEN Undef
                          ELSE ToStr(args[1]),
              properties |-> <<>>]

\* mutant: the first object only names the message, it is not a properties entry
getArgumentsRestOnly(originalArguments) ==
    LET shift == \/ IsError(At(originalArguments, 1))
                 \/ IsString(At(originalArguments, 2))
        args == IF shift THEN Slice1(originalArguments) ELSE originalArguments
        c == IF shift THEN At(originalArguments, 1) ELSE Undef
    IN  IF IsString(At(args, 1)) \/ IsString(At(args, 2))
        THEN [cause |-> c, message |-> At(args, 1), properties |-> Slice1(args)]
        ELSE IF IsObject(At(args, 1))
        THEN [cause |-> c, message |-> MemberMessage(args[1]),
              properties |-> Slice1(args)]
        ELSE [cause |-> c,
              message |-> IF IsUndefined(At(args, 1))
                          THEN Undef
                          ELSE ToStr(args[1]),
              properties |-> <<>>]

\* mutant: a primitive first argument is dropped instead of coerced
getArgumentsNoCoercion(originalArguments) ==
    LET shift == \/ IsError(At(originalArguments, 1))
                 \/ IsString(At(originalArguments, 2))
        args == IF shift THEN Slice1(originalArguments) ELSE originalArguments
        c == IF shift THEN At(originalArguments, 1) ELSE Undef
    IN  IF IsString(At(args, 1)) \/ IsString(At(args, 2))
        THEN [cause |-> c, message |-> At(args, 1), properties |-> Slice1(args)]
        ELSE IF IsObject(At(args, 1))
        THEN [cause |-> c, message |-> MemberMessage(args[1]), properties |-> args]
        ELSE [cause |-> c, message |-> Undef, properties |-> <<>>]

getArguments(originalArguments) ==
    LET shift == \/ IsError(At(originalArguments, 1))
                 \/ IsString(At(originalArguments, 2))
        args == IF shift THEN Slice1(originalArguments) ELSE originalArguments
        c == IF shift THEN At(originalArguments, 1) ELSE Undef
    IN  IF IsString(At(args, 1)) \/ IsString(At(args, 2))
        THEN [cause |-> c, message |-> At(args, 1), properties |-> Slice1(args)]
        ELSE IF IsObject(At(args, 1))
        THEN [cause |-> c, message |-> MemberMessage(args[1]), properties |-> args]
        ELSE [cause |-> c,
              message |-> IF IsUndefined(At(args, 1))
                          THEN Undef
                          ELSE ToStr(args[1]),
              properties |-> <<>>]

(***************************************************************************)
(* The HTTP status registry.                                               *)
(***************************************************************************)
STATUS_CODES ==
    << <<400, <<"Bad", " ", "Request">> >>,
       <<401, <<"Unauthorized">> >>,
       <<402, <<"Payment", " ", "Required">> >>,
       <<403, <<"Forbidden">> >>,
       <<404, <<"Not", " ", "Found">> >>,
       <<405, <<"Method", " ", "Not", " ", "Allowed">> >>,
       <<406, <<"Not", " ", "Acceptable">> >>,
       <<407, <<"Proxy", " ", "Authentication", " ", "Required">> >>,
       <<408, <<"Request", " ", "Timeout">> >>,
       <<409, <<"Conflict">> >>,
       <<410, <<"Gone">> >>,
       <<411, <<"Length", " ", "Required">> >>,
       <<412, <<"Precondition", " ", "Failed">> >>,
       <<413, <<"Request", " ", "Entity", " ", "Too", " ", "Large">> >>,
       <<414, <<"Request", "-", "URI", " ", "Too", " ", "Large">> >>,
       <<415, <<"Unsupported", " ", "Media", " ", "Type">> >>,
       <<416, <<"Requested", " ", "Range", " ", "Not", " ", "Satisfiable">> >>,
       <<417, <<"Expectation", " ", "Failed">> >>,
       <<418, <<"I'm", " ", "a", " ", "teapot">> >>,
       <<422, <<"Unprocessable", " ", "Entity">> >>,
       <<423, <<"Locked">> >>,
       <<424, <<"Failed", " ", "Dependency">> >>,
       <<425, <<"Unordered", " ", "Collection">> >>,
       <<426, <<"Upgrade", " ", "Required">> >>,
       <<428, <<"Precondition", " ", "Required">> >>,
       <<429, <<"Too", " ", "Many", " ", "Requests">> >>,
       <<431, <<"Request", " ", "Header", " ", "Fields", " ", "Too", " ", "Large">> >>,
       <<451, <<"Unavailable", " ", "For", " ", "Legal", " ", "Reasons">> >>,
       <<500, <<"Internal", " ", "Server", " ", "Error">> >>,
       <<501, <<"Not", " ", "Implemented">> >>,
       <<502, <<"Bad", " ", "Gateway">> >>,
       <<503, <<"Service", " ", "Unavailable">> >>,
       <<504, <<"Gateway", " ", "Timeout">> >>,
       <<505, <<"HTTP", " ", "Version", " ", "Not", " ", "Supported">> >>,
       <<506, <<"Variant", " ", "Also", " ", "Negotiates">> >>,
       <<507, <<"Insufficient", " ", "Storage">> >>,
       <<509, <<"Bandwidth", " ", "Limit", " ", "Exceeded">> >>,
       <<510, <<"Not", " ", "Extended">> >>,
       <<511, <<"Network", " ", "Authentication", " ", "Required">> >> >>

\* Therror.HTTP.STATUS_CODES[code]
StatusText(code) ==
    IF \E i \in 1..Len(STATUS_CODES) : STATUS_CODES[i][1] = code
    THEN StrV(STATUS_CODES[CHOOSE i \in 1..Len(STATUS_CODES) :
                                     STATUS_CODES[i][1] = code][2])
    ELSE Undef

\* STATUS_CODES[statusCode] for a parsed status code (undefined for NaN)
StatusOf(statusCode) ==
    IF statusCode.t = "num" THEN StatusText(statusCode.n) ELSE Undef

\* _.upperFirst(_.camelCase(word)) of one word of a reason phrase
CapWord(w) ==
    CASE w = "HTTP" -> "Http"
      [] w = "URI" -> "Uri"
      [] w = "I'm" -> "Im"
      [] w = "a" -> "A"
      [] w = "teapot" -> "Teapot"
      [] OTHER -> w

\* _.upperFirst(_.camelCase(phrase)): the separators go, every word is capitalized
RECURSIVE PascalCase(_)
PascalCase(words) ==
    IF words = <<>> THEN <<>>
    ELSE IF Head(words) \in {" ", "-"} THEN PascalCase(Tail(words))
    ELSE <<CapWord(Head(words))>> \o PascalCase(Tail(words))

\* parseInt(v, 10) of a number or of a string of digits; NaN otherwise
NaN == [t |-> "nan"]

ParseInt(v) ==
    CASE v.t = "num" -> v
      [] v.t = "str" /\ Len(v.s) = 1
           /\ (\E n \in 0..999 : ToString(n) = v.s[1]) ->
             NumV(CHOOSE n \in 0..999 : ToString(n) = v.s[1])
      [] OTHER -> NaN

\* a < n on a number (false on NaN)
Lt(v, n) == v.t = "num" /\ v.n < n

(***************************************************************************)
(* Types: a declared class over a chain of mixins, outermost first.        *)
(***************************************************************************)
\* mutant: the status is kept as it was given
HTTPUncoerced(statusCode) == [f |-> "HTTP", p |-> Or(statusCode, NumV(500))]

Namespaced(name) == [f |-> "Namespaced", p |-> name]
Serializable == [f |-> "Serializable", p |-> Undef]
Notificator == [f |-> "Notificator", p |-> Undef]
Loggable(level) == [f |-> "Loggable", p |-> Or(level, StrV(<<"error">>))]
WithMessage(msg) == [f |-> "WithMessage", p |-> msg]
HTTP(statusCode) == [f |-> "HTTP", p |-> ParseInt(Or(statusCode, NumV(500)))]
WithName(name) == [f |-> "WithName", p |-> name]

\* mutant: the HTTP mixin is applied over WithMessage
ServerErrorHttpOutside(opt) ==
    <<Notificator, Loggable(Get(opt, "level")), HTTP(Get(opt, "statusCode"))>>
    \o (IF Truthy(Get(opt, "message"))
        THEN <<WithMessage(Get(opt, "message"))>>
        ELSE <<>>)

\* Therror.ServerError(opt): the chain it returns
ServerError(opt) ==
    <<Notificator, Loggable(Get(opt, "level"))>>
    \o (IF Truthy(Get(opt, "message"))
        THEN <<WithMessage(Get(opt, "message"))>>
        ELSE <<>>)
    \o <<HTTP(Get(opt, "statusCode"))>>

\* class decl extends chain {}; decl "" is the anonymous class a mixin returns
Class(decl, chain) == [decl |-> decl, chain |-> chain]

(***************************************************************************)
(* The Therror constructor.                                                *)
(***************************************************************************)
\* this[k] = v as Object.assign does it: through setters, failing on a
\* property that cannot be written
SetKey(self, k, v) ==
    CASE k = "message" ->
           LET r == setMessage(self, v)
           IN  IF IsRaise(r.ret) THEN r.ret ELSE r.self
      [] k = "name" -> [self EXCEPT !.name = v]
      [] k = "stack" -> [self EXCEPT !.stack = v]
      [] k = "isTherror" -> Raise("TypeError")
      [] k = "statusCode" /\ HasFacet(self, "HTTP") -> Raise("TypeError")
      [] k = "namespace" /\ HasFacet(self, "Namespaced") -> Raise("TypeError")
      [] OTHER -> [self EXCEPT !.props = Put(@, k, v)]

\* the own enumerable string-keyed properties Object.assign copies from v
OwnEnumerable(v) ==
    CASE v.t = "obj" -> v.kv
      [] v.t = "therror" -> v.props
      [] OTHER -> <<>>

RECURSIVE AssignAll(_, _)

\* one key is set; the copy stops at the first raise
AssignRest(next, kv) == IF IsRaise(next) THEN next ELSE AssignAll(next, kv)

AssignAll(self, kv) ==
    IF kv = <<>> THEN self
    ELSE AssignRest(SetKey(self, Head(kv)[1], Head(kv)[2]), Tail(kv))

\* Object.assign(this, property)
ObjectAssign(self, property) == AssignAll(self, OwnEnumerable(property))

\* (property, index) => { if (_.isString(property)) ... else ... }
MergeOne(self, property, index) ==
    IF IsString(property)
    THEN SetKey(self, ToString(index), property)
    ELSE ObjectAssign(self, property)

RECURSIVE MergeProperties(_, _, _)

MergeRest(next, properties, index) ==
    IF IsRaise(next) THEN next ELSE MergeProperties(next, properties, index)

\* args.properties.forEach((property, index) => ...)
MergeProperties(self, properties, index) ==
    IF properties = <<>> THEN self
    ELSE MergeRest(MergeOne(self, Head(properties), index),
                   Tail(properties), index + 1)

\* args.cause && args.cause.message
CauseMessage(c) == IF Truthy(c) THEN MemberMessage(c) ELSE c

\* the template the constructor installs
InitialTemplate(args) ==
    ToStr(Or(Or(args.message, CauseMessage(args.cause)),
             StrV(<<"Unknown error">>)))

\* the instance after super(), stack captured, name and isTherror defined
Blank(type) ==
    [t |-> "therror",
     decl |-> type.decl,
     chain |-> type.chain,
     name |-> IF type.decl = "Therror" THEN StrV(<<"Error">>)
              ELSE IF type.decl = "" THEN StrV(<<>>)
              ELSE StrV(<<type.decl>>),
     isTherror |-> TRUE,
     stack |-> StrV(<<"stack">>),
     props |-> <<>>,
     cause |-> Undef,
     tpl |-> <<>>]

\* this[causeSymbol] = args.cause; this[templateSymbol] = _.template(...)
Install(merged, c, tpl) ==
    IF IsRaise(merged) THEN merged
    ELSE IF IsRaise(tpl) THEN tpl
    ELSE [merged EXCEPT !.cause = c, !.tpl = tpl.s]

\* the constructor's body once getArguments returned args
Build(blank, args) ==
    IF IsRaise(args.message) THEN args.message
    ELSE Install(MergeProperties(blank, args.properties, 0),
                 args.cause, InitialTemplate(args))

\* class Therror: constructor()
TherrorConstructor(type, arguments) == Build(Blank(type), getArguments(arguments))

(***************************************************************************)
(* The mixins' constructors. Construction gives the instance (or the raise)*)
(* and what was published on the emitter while it ran.                     *)
(***************************************************************************)
\* mutant: the constructor hands on two arguments only
FirstTwo(arguments) == <<At(arguments, 1), At(arguments, 2)>>

\* constructor(err, msg, prop) { super(err, msg, prop); ... }
FirstThree(arguments) ==
    <<At(arguments, 1), At(arguments, 2), At(arguments, 3)>>

\* Namespaced: the name after super() returned
NamespacedName(self, name) ==
    IF Truthy(self.name)
    THEN StrV(ToText(name) \o <<".">> \o ToText(self.name))
    ELSE name

\* WithMessage: what its constructor hands to super()
WithMessageSuper(msg, args) ==
    <<args.cause, Or(args.message, msg), At(args.properties, 1)>>

WithMessageArguments(msg, arguments) ==
    WithMessageSuper(msg, getArguments(arguments))

\* HTTP: what its constructor hands to super()
HTTPSuper(statusCode, args) ==
    <<args.cause,
      Or(Or(Or(args.message, CauseMessage(args.cause)), StatusOf(statusCode)),
         StatusText(500)),
      At(args.properties, 1)>>

HTTPArguments(statusCode, arguments) ==
    HTTPSuper(statusCode, getArguments(arguments))

\* what the constructor of a mixin passes to super()
SuperArguments(facet, arguments) ==
    CASE facet.f \in {"Namespaced", "WithName", "Notificator"} ->
           FirstThree(arguments)
      [] facet.f = "WithMessage" -> WithMessageArguments(facet.p, arguments)
      [] facet.f = "HTTP" -> HTTPArguments(facet.p, arguments)
      [] OTHER -> arguments

\* what the constructor of a mixin does once super() returned r
AfterSuper(facet, r) ==
    IF IsRaise(r.self) THEN r
    ELSE CASE facet.f = "Namespaced" ->
                [r EXCEPT !.self.name = NamespacedName(r.self, facet.p)]
           [] facet.f = "WithName" -> [r EXCEPT !.self.name = facet.p]
           [] facet.f = "Notificator" -> [r EXCEPT !.emitted = Append(@, r.self)]
           [] OTHER -> r

RECURSIVE Super(_, _, _)

\* a mixin's constructor, the arguments for super() computed (a getter read
\* while computing them may have raised)
Wrapped(type, i, a) ==
    IF IsRaise(At(a, 2))
    THEN [self |-> a[2], emitted |-> <<>>]
    ELSE AfterSuper(type.chain[i], Super(type, i + 1, a))

\* the constructor of the i-th class of the chain (the base class after the last)
Super(type, i, arguments) ==
    IF i > Len(type.chain)
    THEN [self |-> TherrorConstructor(type, arguments), emitted |-> <<>>]
    ELSE Wrapped(type, i, SuperArguments(type.chain[i], arguments))

\* new type(...arguments)
New(type, arguments) == Super(type, 1, arguments)

(***************************************************************************)
(* Members the mixins add.                                                 *)
(***************************************************************************)
\* Namespaced: get namespace()
namespace(self) == FacetParam(self, "Namespaced")

\* HTTP: get statusCode()
statusCode(self) == FacetParam(self, "HTTP")

\* mutant: the payload carries the real message whatever the status
getPayloadMessageLeaking(self) == getMessage(self).ret

\* HTTP: getPayloadMessage()
getPayloadMessage(self) ==
    IF Lt(statusCode(self), 500)
    THEN getMessage(self).ret
    ELSE Or(StatusOf(statusCode(self)), StatusText(500))

\* mutant: the payload names the status whatever the status
getPayloadErrorNameHidden(self) ==
    StrV(PascalCase(Or(StatusOf(statusCode(self)), StatusText(500)).s))

\* HTTP: getPayloadErrorName()
getPayloadErrorName(self) ==
    IF Lt(statusCode(self), 500)
    THEN self.name
    ELSE StrV(PascalCase(Or(StatusOf(statusCode(self)), StatusText(500)).s))

\* HTTP: toPayload()
toPayload(self) ==
    LET name == getPayloadErrorName(self)
        message == getPayloadMessage(self)
    IN  [self |-> self,
         ret |-> IF IsRaise(message) THEN message
                 ELSE ObjV(<< <<"error", name>>, <<"message", message>> >>)]

\* Loggable: level()
level(self) == FacetParam(self, "Loggable")

\* a logger: who it is and the methods it has
Logger(id, methods) == [id |-> id, methods |-> methods]
Console == Logger("console", {"error", "warn", "info", "log", "debug", "trace"})

\* the opts of log(opts): none, or {req: {logger: l}}
NoOpts == Undef
Opts(l) == [t |-> "opts", logger |-> l]

\* logger[level](self): the call made, or the raise when the method is missing
Invoke(l, method, self) ==
    IF method \in l.methods
    THEN [t |-> "logged",
          calls |-> << [logger |-> l.id, method |-> method, arg |-> self] >>]
    ELSE Raise("TypeError")

\* mutant: the logger is the one the library started with
logAtCreation(self, opts, defaultLogger) ==
    [self |-> self, ret |-> Invoke(Console, level(self).s[1], self)]

\* Loggable: log(opts)
log(self, opts, defaultLogger) ==
    [self |-> self,
     ret |-> IF opts # NoOpts /\ level(self).s[1] \in opts.logger.methods
             THEN Invoke(opts.logger, level(self).s[1], self)
             ELSE Invoke(defaultLogger, level(self).s[1], self)]

(***************************************************************************)
(* The values and types the model constructs with.                         *)
(***************************************************************************)
Seven == NumV(7)
Zero == NumV(0)
Plain == StrV(<<"wrap">>)
Greeting == StrV(<<" ", "Hi", " ", "${a}">>)
Empty == StrV(<<>>)
ObjA == ObjV(<< <<"a", NumV(1)>> >>)
ObjMsg == ObjV(<< <<"a", StrV(<<"blue">>)>>,
                  <<"message", StrV(<<"My", " ", "${a}">>)>> >>)
ObjFlag == ObjV(<< <<"isTherror", NumV(0)>> >>)
ObjBlank == ObjV(<< <<"message", Empty>> >>)
Root == ErrV(<<"root">>)
Hollow == ErrV(<<>>)
LowLevel == ErrV(<<"low", " ", "${a}">>)

MyError == Class("MyError", <<>>)

\* a Therror that wraps Root and is itself used as a cause
Inner == New(MyError, <<Root, StrV(<<"inner">>), ObjV(<< <<"b", NumV(2)>> >>)>>).self

\* what a caller may pass when the normalizer is exercised
Pool == {Undef, Seven, Zero, Plain, Greeting, Empty, ObjA, ObjMsg, ObjFlag,
         ObjBlank, Root, Hollow, LowLevel, Inner}

\* what a caller passes to the instances whose life is followed
LifePool == {Greeting, ObjA, Root, Inner}

\* every list of at most n arguments drawn from pool
RECURSIVE ArgLists(_, _)
ArgLists(pool, n) ==
    IF n = 0 THEN {<<>>}
    ELSE LET shorter == ArgLists(pool, n - 1)
         IN  shorter \cup
             {Append(a, v) : a \in {x \in shorter : Len(x) = n - 1}, v \in pool}

Therror == Class("Therror", <<>>)
FatalError == Class("FatalError", <<Namespaced(StrV(<<"Server">>))>>)
UserNotFound == Class("UserNotFound", <<HTTP(StrV(<<"404">>))>>)
Unavailable == Class("Unavailable", <<HTTP(NumV(503))>>)
Templated == Class("Templated", <<WithMessage(StrV(<<"User", " ", "${a}">>))>>)
ServerDown ==
    Class("ServerDown",
          ServerError(<< <<"level", StrV(<<"info">>)>>,
                         <<"statusCode", NumV(404)>> >>))

\* the keys this[index] = property can create
ArrayIndices == 0..(MaxArgs + MaxFacetArgs)
ArrayIndex(k) == \E i \in ArrayIndices : k = ToString(i)

\* a set of array indices as keys, ascending
Ascending(S) ==
    [j \in 1..Cardinality(S) |->
        ToString(CHOOSE i \in S : Cardinality({m \in S : m < i}) = j - 1)]

\* the order in which an object lists its own keys: array indices ascending,
\* then the other keys as they were created
OwnKeyOrder(keys) ==
    Ascending({i \in ArrayIndices : \E j \in 1..Len(keys) : keys[j] = ToString(i)})
    \o SelectSeq(keys, LAMBDA k : ~ArrayIndex(k))

\* mutant: the keys come in the order they were created
ObjectKeysAsCreated(self) == Keys(self.props)

\* Object.keys(err)
ObjectKeys(self) == OwnKeyOrder(Keys(self.props))

\* mutant: the precreated class is left with the name of its anonymous class
PrecreatedUnnamed(code) ==
    Class("",
          ServerError(<< <<"statusCode", NumV(code)>>,
                         <<"level", StrV(<<IF code < 500 THEN "info"
                                           ELSE "error">>)>> >>))

\* Therror.ServerError[name] = Therror.ServerError[code]: the precreated class
\* of a registry entry
Precreated(code) ==
    Class("",
          <<WithName(StrV(PascalCase(StatusText(code).s)))>>
          \o ServerError(<< <<"statusCode", NumV(code)>>,
                            <<"level", StrV(<<IF code < 500 THEN "info"
                                              ELSE "error">>)>> >>))

NotFound == Precreated(404)

\* the assignments _.forEach(STATUS_CODES, ...) makes on Therror.ServerError,
\* in order: the class under the name, then the same class under the code
Assigned ==
    [j \in 1..(2 * Len(STATUS_CODES)) |->
        IF j % 2 = 1
        THEN <<StrV(PascalCase(STATUS_CODES[(j + 1) \div 2][2])),
               Precreated(STATUS_CODES[(j + 1) \div 2][1])>>
        ELSE <<NumV(STATUS_CODES[j \div 2][1]),
               Precreated(STATUS_CODES[j \div 2][1])>>]

\* the keys of Therror.ServerError that hold a precreated class
ServerErrorKeys == {Assigned[j][1] : j \in 1..Len(Assigned)}

\* Therror.ServerError[key]: what was assigned last under the key
ServerErrorAt(key) ==
    Assigned[CHOOSE j \in 1..Len(Assigned) :
                /\ Assigned[j][1] = key
                /\ \A k \in (j + 1)..Len(Assigned) : Assigned[k][1] # key][2]

\* Therror.HTTP(404, Therror.Namespaced('Api')) and the other way round
HttpOverNs == Class("", <<HTTP(NumV(404)), Namespaced(StrV(<<"Api">>))>>)
NsOverHttp == Class("", <<Namespaced(StrV(<<"Api">>)), HTTP(NumV(404))>>)

\* class Unrecognized extends Therror.HTTP(2312332) {}
Unrecognized == Class("Unrecognized", <<HTTP(NumV(2312332))>>)

\* class Defaulted extends Therror.HTTP() {}
Defaulted == Class("Defaulted", <<HTTP(Undef)>>)

Types == {Therror, MyError, FatalError, UserNotFound, Unavailable, Templated,
          ServerDown}

\* the types the normalizer is exercised through
NewTypes == {Therror, NotFound}

\* class Composed extends Therror.ServerError({level, statusCode, message}) {}
FullOptions ==
    << <<"level", StrV(<<"info">>)>>,
       <<"statusCode", NumV(404)>>,
       <<"message", StrV(<<"User", " ", "${a}">>)>> >>
Composed == Class("Composed", ServerError(FullOptions))

\* class Composed extends Therror.Notificator(Therror.Loggable(level,
\*   Therror.WithMessage(message, Therror.HTTP(statusCode)))) {}
Explicit ==
    Class("Composed",
          <<Notificator,
            Loggable(StrV(<<"info">>)),
            WithMessage(StrV(<<"User", " ", "${a}">>)),
            HTTP(NumV(404))>>)

\* class Bare extends Therror.ServerError() {}
Bare == Class("Bare", ServerError(<<>>))

\* the types whose mixins re-read the arguments, and what they are given
FacetTypes == {HttpOverNs, NsOverHttp, Templated, UserNotFound, Unrecognized,
               FatalError, Composed, Bare}
ObjB == ObjV(<< <<"b", NumV(2)>> >>)
FacetPool == {Undef, Plain, ObjA, ObjB, Root}

\* class Logged extends Therror.Loggable() {}
Logged == Class("Logged", <<Loggable(Undef)>>)

\* the loggers of the model: a per-request one, one that lacks the levels in
\* use, and a default one with the info method only
RequestLogger == Logger("req.logger", {"error", "info"})
WarnOnly == Logger("req.warn", {"warn"})
InfoOnly == Logger("logger", {"info"})

\* class extends Therror.WithMessage('User ${a}', Therror.HTTP(404)) and
\* class extends Therror.HTTP(404, Therror.WithMessage('User ${a}'))
MessageOverHttp ==
    Class("", <<WithMessage(StrV(<<"User", " ", "${a}">>)), HTTP(NumV(404))>>)
HttpOverMessage ==
    Class("", <<HTTP(NumV(404)), WithMessage(StrV(<<"User", " ", "${a}">>))>>)

\* the types that answer a service, and what they are given
ServiceTypes == {UserNotFound, Unavailable, Defaulted, Unrecognized, ServerDown,
                 Logged, MessageOverHttp, HttpOverMessage}
ObjStatus == ObjV(<< <<"statusCode", NumV(200)>> >>)
ObjName == ObjV(<< <<"name", StrV(<<"Custom">>)>> >>)
ServicePool == {Plain, ObjA, ObjStatus, ObjName, Root}
ServiceKeys == {"a", "statusCode"}
LogOpts == {NoOpts, Opts(RequestLogger), Opts(WarnOnly)}
Loggers == {Console, InfoOnly}

\* what the precreated classes are given
RegistryPool == {Plain, ObjA, ObjName, Root}

Templates == {StrV(<<"Mis", " ", "${b}", " ">>), StrV(<<"late", " ", "${a}">>)}
PropKeys == {"a", "b"}
PropValues == {NumV(9)}

(***************************************************************************)
(* The state machine: one construction, then operations on the instance.   *)
(***************************************************************************)
NoCall == [type |-> Therror, arguments |-> <<>>]
Nothing == [op |-> "none", arg |-> Undef, ret |-> Undef]

Init ==
    /\ inst = NoInst
    /\ call = NoCall
    /\ last = Nothing
    /\ bus = <<>>
    /\ logger = Console
    /\ namespaces = <<>>
    /\ published = <<>>
    /\ allocated = 0

\* the 0.x API is left alone
Modern == UNCHANGED <<namespaces, published, allocated>>

\* nothing has been constructed yet
Fresh == inst.t = "none"

\* let e = new type(...arguments)
Construct(type, arguments) ==
    /\ Fresh
    /\ LET r == New(type, arguments)
       IN  /\ inst' = r.self
           /\ bus' = bus \o r.emitted
    /\ call' = [type |-> type, arguments |-> arguments]
    /\ last' = [op |-> "new", arg |-> Undef, ret |-> Undef]
    /\ UNCHANGED logger
    /\ Modern

\* the effect of calling a member: r is what the member gives
Apply(op, arg, r) ==
    /\ inst' = r.self
    /\ last' = [op |-> op, arg |-> arg, ret |-> r.ret]
    /\ UNCHANGED <<call, bus, logger>>
    /\ Modern

Alive == inst.t = "therror"

\* e.message
ReadMessage == Alive /\ Apply("message", Undef, getMessage(inst))

\* e.message = value
WriteMessage(value) == Alive /\ Apply("message=", value, setMessage(inst, value))

\* e.parse(tpl)
Parse(tpl) == Alive /\ Apply("parse", tpl, parse(inst, tpl))

\* e.cause()
Cause == Alive /\ Apply("cause", Undef, cause(inst))

\* e[k] = v
SetProperty(k, v) ==
    /\ Alive
    /\ LET next == SetKey(inst, k, v)
       IN  Apply("set", StrV(<<k>>),
                 IF IsRaise(next) THEN [self |-> inst, ret |-> next]
                 ELSE [self |-> next, ret |-> v])

\* e.toPayload()
ToPayload ==
    /\ Alive
    /\ HasFacet(inst, "HTTP")
    /\ Apply("toPayload", Undef, toPayload(inst))

\* e.log(opts)
Log(opts) ==
    /\ Alive
    /\ HasFacet(inst, "Loggable")
    /\ Apply("log", opts, log(inst, opts, logger))

\* e.statusCode
StatusCode ==
    /\ Alive
    /\ HasFacet(inst, "HTTP")
    /\ Apply("statusCode", Undef, [self |-> inst, ret |-> statusCode(inst)])

\* e.level()
Level ==
    /\ Alive
    /\ HasFacet(inst, "Loggable")
    /\ Apply("level", Undef, [self |-> inst, ret |-> level(inst)])

\* Therror.Loggable.logger = l
SetLogger(l) ==
    /\ logger' = l
    /\ last' = [op |-> "logger=", arg |-> Undef, ret |-> Undef]
    /\ UNCHANGED <<inst, call, bus>>
    /\ Modern

\* the life of an instance of any type
Next ==
    \/ /\ Fresh
       /\ \E type \in Types, arguments \in ArgLists(LifePool, MaxArgs) :
             Construct(type, arguments)
    \/ ReadMessage
    \/ \E value \in Templates : WriteMessage(value)
    \/ \E tpl \in Templates : Parse(tpl)
    \/ Cause
    \/ \E k \in PropKeys, v \in PropValues : SetProperty(k, v)
    \/ ToPayload
    \/ \E opts \in {NoOpts, Opts(RequestLogger)} : Log(opts)

Spec == Init /\ [][Next]_vars

\* construction from any argument list, then the reads that observe it
NextNew ==
    \/ /\ Fresh
       /\ \E type \in NewTypes, arguments \in ArgLists(Pool, MaxArgs) :
             Construct(type, arguments)
    \/ ReadMessage
    \/ Cause

SpecNew == Init /\ [][NextNew]_vars

\* construction of the types built from mixins, from longer argument lists
NextFacets ==
    \/ /\ Fresh
       /\ \E type \in FacetTypes, arguments \in ArgLists(FacetPool, MaxFacetArgs) :
             Construct(type, arguments)
    \/ ReadMessage
    \/ Cause

SpecFacets == Init /\ [][NextFacets]_vars

\* an error of a service: built, read, turned into a payload and logged while
\* the default logger is reassigned
NextService ==
    \/ /\ Fresh
       /\ \E type \in ServiceTypes,
             arguments \in ArgLists(ServicePool, MaxServiceArgs) :
             Construct(type, arguments)
    \/ ReadMessage
    \/ StatusCode
    \/ Level
    \/ ToPayload
    \/ \E k \in ServiceKeys, v \in PropValues : SetProperty(k, v)
    \/ \E opts \in LogOpts : Log(opts)
    \/ \E l \in Loggers : SetLogger(l)

SpecService == Init /\ [][NextService]_vars

\* an instance of any class found on Therror.ServerError
NextRegistry ==
    \/ /\ Fresh
       /\ \E key \in ServerErrorKeys,
             arguments \in ArgLists(RegistryPool, MaxRegistryArgs) :
             Construct(ServerErrorAt(key), arguments)
    \/ ReadMessage
    \/ StatusCode
    \/ Level

SpecRegistry == Init /\ [][NextRegistry]_vars

(***************************************************************************)
(* Claims.                                                                 *)
(***************************************************************************)
Constructed == inst.t = "therror"

\* the first argument is designated as the cause
Shifted(arguments) ==
    IsError(At(arguments, 1)) \/ IsString(At(arguments, 2))

\* C1: for every argument list, if the first argument is an Error instance or
\* the second argument is a string, cause() returns exactly the first argument
\* whatever its type, a non-empty second string is the message template
\* whatever the cause holds, and a key of a plain-object cause is on the
\* instance only if a later argument brought it; in every other case cause()
\* returns undefined.
C1_CauseDetection ==
    Constructed =>
        LET a == call.arguments
            designated == IF Shifted(a) THEN At(a, 1) ELSE Undef
        IN  /\ inst.cause = designated
            /\ (last.op = "cause" => last.ret = designated)
            /\ (Shifted(a) /\ IsString(At(a, 2)) /\ Truthy(At(a, 2))
                  => inst.tpl = At(a, 2).s)
            /\ (Shifted(a) /\ At(a, 1).t = "obj"
                  => \A i \in 1..Len(a[1].kv) :
                        HasKey(inst.props, a[1].kv[i][1])
                          => \E j \in 2..Len(a) :
                                HasKey(OwnEnumerable(a[j]), a[1].kv[i][1]))

\* C1 witness: new Therror({a: 1}, 'wrap') answered cause() with the object
\* and carries none of its keys
C1_Witness ==
    /\ Constructed
    /\ call.type = Therror
    /\ call.arguments = <<ObjA, Plain>>
    /\ last.op = "cause"
    /\ last.ret = ObjA
    /\ inst.props = <<>>
    /\ inst.tpl = <<"wrap">>

\* the arguments after the optional cause
Rest(arguments) == IF Shifted(arguments) THEN Slice1(arguments) ELSE arguments

\* the keys a list of properties entries brings, strings counted from `from`
EntryKeys(entries, from) ==
    UNION {IF IsString(entries[i]) THEN {ToString(from + i - 1)}
           ELSE {OwnEnumerable(entries[i])[j][1] :
                    j \in 1..Len(OwnEnumerable(entries[i]))} :
           i \in 1..Len(entries)}

\* the entries of the list that bring key k
Bringing(entries, from, k) ==
    {i \in 1..Len(entries) :
        IF IsString(entries[i]) THEN k = ToString(from + i - 1)
        ELSE HasKey(OwnEnumerable(entries[i]), k)}

Latest(S) == CHOOSE i \in S : \A j \in S : j <= i

\* props holds exactly what the entries bring, the later entry winning
MergedInOrder(props, entries, from) ==
    /\ \A i \in 1..Len(props) :
          props[i][1] \in EntryKeys(entries, from) \ {"message"}
    /\ \A k \in EntryKeys(entries, from) \ {"message"} :
          /\ HasKey(props, k)
          /\ LET e == entries[Latest(Bringing(entries, from, k))]
             IN  Get(props, k) = IF IsString(e) THEN e
                                 ELSE Get(OwnEnumerable(e), k)

\* the first argument after the optional cause is a string
StringFirst(arguments) == IsString(At(Rest(arguments), 1))

\* C2: when the first argument after the optional cause is a non-empty string,
\* that string is the message template even if a properties mapping has a
\* `message` key; an empty string resolves no message and the "Unknown error"
\* literal stands in when there is no cause either. In both cases every
\* following argument is a properties entry: mappings are merged in argument
\* order, the later one winning a key collision, and a string entry is stored
\* under its position in the properties list.
C2_StringMessage ==
    Constructed /\ call.type = Therror /\ StringFirst(call.arguments) =>
        LET r == Rest(call.arguments)
        IN  /\ Truthy(r[1]) => inst.tpl = r[1].s
            /\ ~Truthy(r[1]) /\ ~Shifted(call.arguments)
                  => inst.tpl = <<"Unknown error">>
            /\ MergedInOrder(inst.props, Slice1(r), 0)

\* C2 as stated: any string in first place, the empty one included, is the
\* message template
C2_AnyStringIsTemplate ==
    Constructed /\ call.type = Therror /\ StringFirst(call.arguments) =>
        LET r == Rest(call.arguments)
        IN  /\ inst.tpl = r[1].s
            /\ MergedInOrder(inst.props, Slice1(r), 0)

\* C2 witness: new Therror('wrap', {a: 1}, {a: 'blue', message: 'My ${a}'})
\* keeps 'wrap' for its template and the later value of a
C2_Witness ==
    /\ Constructed
    /\ call.type = Therror
    /\ call.arguments = <<Plain, ObjA, ObjMsg>>
    /\ inst.tpl = <<"wrap">>
    /\ inst.props = << <<"a", StrV(<<"blue">>)>> >>
    /\ last.op = "message"
    /\ last.ret = Plain

\* the first argument after the optional cause is a plain object and no
\* string follows it
ObjectFirst(arguments) ==
    /\ At(Rest(arguments), 1).t = "obj"
    /\ ~IsString(At(Rest(arguments), 2))

\* C3: when the first argument after the optional cause is a plain object and
\* no string follows it, all the remaining arguments, that object included,
\* are merged as properties; the template is the object's `message` key when
\* that key holds a non-empty string; without the key, or with an empty one,
\* and without a cause the template is "Unknown error", the keys being merged
\* all the same.
C3_PropertiesOnly ==
    Constructed /\ call.type = Therror /\ ObjectFirst(call.arguments) =>
        LET r == Rest(call.arguments)
            m == Get(r[1].kv, "message")
        IN  /\ MergedInOrder(inst.props, r, 0)
            /\ Truthy(m) => inst.tpl = m.s
            /\ ~Truthy(m) /\ ~Shifted(call.arguments)
                  => /\ inst.tpl = <<"Unknown error">>
                     /\ last.op = "message"
                           => last.ret = StrV(<<"Unknown error">>)

\* C3 as stated: a `message` key of the first object, whatever it holds, is
\* the template
C3_AnyMessageKeyIsTemplate ==
    Constructed /\ call.type = Therror /\ ObjectFirst(call.arguments) =>
        LET r == Rest(call.arguments)
        IN  /\ MergedInOrder(inst.props, r, 0)
            /\ HasKey(r[1].kv, "message")
                  => inst.tpl = Get(r[1].kv, "message").s
            /\ ~HasKey(r[1].kv, "message") /\ ~Shifted(call.arguments)
                  => inst.tpl = <<"Unknown error">>

\* C3 witness: new Therror({a: 1}, {a: 'blue', message: 'My ${a}'}) reads
\* "Unknown error" and has the later a
C3_Witness ==
    /\ Constructed
    /\ call.type = Therror
    /\ call.arguments = <<ObjA, ObjMsg>>
    /\ inst.props = << <<"a", StrV(<<"blue">>)>> >>
    /\ last.op = "message"
    /\ last.ret = StrV(<<"Unknown error">>)

\* construction resolves no explicit message: no arguments, an undefined
\* first argument, a properties object without a `message` key, or a cause
\* alone
NoExplicitMessage(arguments) ==
    \/ arguments = <<>>
    \/ IsUndefined(At(arguments, 1)) /\ ~IsString(At(arguments, 2))
    \/ /\ ObjectFirst(arguments)
       /\ ~HasKey(Rest(arguments)[1].kv, "message")
    \/ Shifted(arguments) /\ Len(arguments) = 1

\* the cause's own message if a cause exists and has one, else the literal
FallbackMessage(arguments) ==
    LET c == IF Shifted(arguments) THEN arguments[1] ELSE Undef
    IN  IF Truthy(c) /\ Truthy(MemberMessage(c))
        THEN MemberMessage(c)
        ELSE StrV(<<"Unknown error">>)

\* C4: whenever construction of a base class instance resolves no explicit
\* message, reading `message` gives the cause's own message if a cause exists and has one and otherwise
\* "Unknown error"; it is never the empty string and never "undefined".
C4_FallbackChain ==
    /\ Constructed
    /\ call.type = Therror
    /\ NoExplicitMessage(call.arguments)
    /\ last.op = "message"
    =>
        /\ last.ret = FallbackMessage(call.arguments)
        /\ last.ret # StrV(<<>>)
        /\ last.ret # StrV(<<"undefined">>)

\* C5: when the only argument is a number n, the instance has the message
\* String(n), cause() undefined and no own enumerable properties, for the base
\* class and for a precreated ServerError class alike.
C5_PrimitiveMessage ==
    /\ Constructed
    /\ Len(call.arguments) = 1
    /\ call.arguments[1].t = "num"
    => /\ inst.tpl = <<ToString(call.arguments[1].n)>>
       /\ inst.props = <<>>
       /\ inst.cause = Undef
       /\ last.op = "message"
             => last.ret = StrV(<<ToString(call.arguments[1].n)>>)
       /\ last.op = "cause" => last.ret = Undef

\* C5 witness: new Therror.ServerError.NotFound(0) reads "0"
C5_Witness ==
    /\ Constructed
    /\ call.type = NotFound
    /\ call.arguments = <<Zero>>
    /\ inst.props = <<>>
    /\ last.op = "message"
    /\ last.ret = StrV(<<"0">>)

\* C6: construction, cause() and reading `message` never raise, for any
\* argument list and any type: no construction ends in a raise and no member
\* call returns one.
C6_NeverRaises == ~IsRaise(inst) /\ ~IsRaise(last.ret)

Late == <<"late", " ", "${a}">>
Mis == <<"Mis", " ", "${b}", " ">>

\* what changes no part of the instance
SameInstance == inst' = inst

\* the step is a call of the member op
Called(op) == last'.op = op /\ <<inst, last>> # <<inst', last'>>

\* C7: a read of `message` returns the current template rendered against the
\* current properties (a property set after construction shows in it), the
\* read changes nothing of the instance, and a second read straight after
\* returns the same.
C7_RenderingIsPure ==
    /\ [](last.op = "message" =>
            /\ last.ret = Render(inst.tpl, inst)
            /\ inst.tpl = Late /\ HasKey(inst.props, "a")
                  => last.ret = StrV(<<"late", " ">>
                                     \o ToText(Get(inst.props, "a"))))
    /\ [][last'.op = "message" =>
            /\ SameInstance
            /\ last.op = "message" => last'.ret = last.ret]_vars

\* C7 witness: a, 1 at construction and 9 since, reads as 9
C7_Witness ==
    /\ Alive
    /\ call.arguments = <<Greeting, ObjA>>
    /\ inst.tpl = <<" ", "Hi", " ", "${a}">>
    /\ Get(inst.props, "a") = NumV(9)
    /\ last.op = "message"
    /\ last.ret = StrV(<<"Hi", " ", "9">>)

\* C8: assigning a string t to `message` makes t the stored template and
\* leaves properties, cause and identity as they were; no other member
\* changes the template, and a read gives the stored template rendered
\* against the properties of that moment.
C8_Retemplating ==
    /\ [][Called("message=") =>
            /\ inst'.tpl = last'.arg.s
            /\ [inst' EXCEPT !.tpl = inst.tpl] = inst]_vars
    /\ [][Alive /\ last'.op # "message=" => inst'.tpl = inst.tpl]_vars
    /\ [](last.op = "message" /\ inst.tpl = Mis /\ HasKey(inst.props, "b")
            => last.ret = StrV(<<"Mis", " ">> \o ToText(Get(inst.props, "b"))))

\* C8 witness: 'Mis ${b} ' assigned, b set to 9, and the read says "Mis 9"
C8_Witness ==
    /\ Alive
    /\ call.arguments = <<Greeting, ObjA>>
    /\ inst.tpl = Mis
    /\ inst.props = << <<"a", NumV(1)>>, <<"b", NumV(9)>> >>
    /\ last.op = "message"
    /\ last.ret = StrV(<<"Mis", " ", "9">>)

\* C9: parse(t) returns what `message` would return if t were the template,
\* trimmed, and changes nothing of the instance: `message` reads after it as
\* it did before.
C9_ParseIsPure ==
    /\ [](last.op = "parse" =>
            /\ last.ret = getMessage([inst EXCEPT !.tpl = last.arg.s]).ret
            /\ last.arg.s = Mis /\ HasKey(inst.props, "b")
                  => last.ret = StrV(<<"Mis", " ">>
                                     \o ToText(Get(inst.props, "b"))))
    /\ [][Called("parse") =>
            /\ SameInstance
            /\ Render(inst'.tpl, inst') = Render(inst.tpl, inst)]_vars

\* C9 witness: parse('Mis ${b} ') answered "Mis 2" and the template is still
\* the one given at construction
C9_Witness ==
    /\ Alive
    /\ call.arguments = <<Greeting, ObjA, Inner>>
    /\ last.op = "parse"
    /\ last.arg.s = Mis
    /\ last.ret = StrV(<<"Mis", " ", "2">>)
    /\ inst.tpl = <<" ", "Hi", " ", "${a}">>

\* C10: for every type, the cause of an instance is the value the arguments
\* designated, unchanged by whatever is done to the instance; cause() returns
\* that very value, a wrapped Therror included, and so unwinds one level.
C10_CauseIsFixed ==
    /\ [](Alive =>
            LET designated == IF Shifted(call.arguments)
                              THEN call.arguments[1] ELSE Undef
            IN  /\ inst.cause = designated
                /\ last.op = "cause" => last.ret = designated)
    /\ [][Alive => inst'.cause = inst.cause]_vars

\* C10 witness: a 503 error wrapping Inner, re-templated and given b, answers
\* cause() with Inner, whose own cause is still Root
C10_Witness ==
    /\ Alive
    /\ call.type = Unavailable
    /\ call.arguments = <<Inner>>
    /\ inst.tpl = Late
    /\ Get(inst.props, "b") = NumV(9)
    /\ last.op = "cause"
    /\ last.ret = Inner
    /\ last.ret.cause = Root

\* the instance is of an HTTP type whose status is not below 500
ServerSide == Alive /\ HasFacet(inst, "HTTP") /\ ~Lt(statusCode(inst), 500)

\* the instance is of an HTTP type whose status is below 500
ClientSide == Alive /\ HasFacet(inst, "HTTP") /\ Lt(statusCode(inst), 500)

\* {error: 'InternalServerError', message: 'An internal server error occurred'},
\* word by word
GenericPayload ==
    ObjV(<< <<"error", StrV(<<"Internal", "Server", "Error">>)>>,
            <<"message", StrV(<<"An", " ", "internal", " ", "server", " ",
                                "error", " ", "occurred">>)>> >>)

\* C11: for every instance of an HTTP type whose status is 500 or more,
\* toPayload() returns exactly {error: "InternalServerError", message: "An
\* internal server error occurred"}, whatever the message, identity and
\* properties of the instance.
C11_PayloadHidden ==
    ServerSide /\ last.op = "toPayload" => last.ret = GenericPayload

\* C12: for an HTTP type whose status is 500 or more, toPayload() of any
\* instance equals toPayload() of the instance of the same type built with no
\* arguments, so no two instances differ in it, and the call changes nothing
\* of the instance.
C12_PayloadNonInterference ==
    /\ [](ServerSide /\ last.op = "toPayload"
            => last.ret = toPayload(New(call.type, <<>>).self).ret)
    /\ [][last'.op = "toPayload" => SameInstance]_vars

\* C12 witness: a 503 error with its own message, property and cause answers
\* with the reason phrase only and still holds all three
C12_Witness ==
    /\ ServerSide
    /\ call.arguments = <<Root, Greeting, ObjA>>
    /\ last.op = "toPayload"
    /\ Get(last.ret.kv, "message") = StrV(<<"Service", " ", "Unavailable">>)
    /\ inst.tpl = <<" ", "Hi", " ", "${a}">>
    /\ inst.props = << <<"a", NumV(1)>> >>
    /\ inst.cause = Root

\* C13: toPayload() returns an object with exactly the keys error and message,
\* in every status; below 500 error is the identity of the instance and
\* message is its message as rendered when the call is made.
C13_ClientPayload ==
    Alive /\ last.op = "toPayload" /\ ~IsRaise(last.ret) =>
        /\ Keys(last.ret.kv) = <<"error", "message">>
        /\ ClientSide =>
              /\ Get(last.ret.kv, "error") = inst.name
              /\ Get(last.ret.kv, "message") = Render(inst.tpl, inst)
              /\ inst.tpl = Late /\ HasKey(inst.props, "a")
                    => Get(last.ret.kv, "message")
                         = StrV(<<"late", " ">> \o ToText(Get(inst.props, "a")))

\* C13 witness: a 404 error re-templated and given a = 9 answers
\* {error: 'UserNotFound', message: 'late 9'}
C13_Witness ==
    /\ ClientSide
    /\ call.type = UserNotFound
    /\ call.arguments = <<Greeting, ObjA>>
    /\ last.op = "toPayload"
    /\ last.ret = ObjV(<< <<"error", StrV(<<"UserNotFound">>)>>,
                          <<"message", StrV(<<"late", " ", "9">>)>> >>)

\* C14: constructing an instance of a Notificator type publishes exactly one
\* event, carrying the instance as the constructors of all the facets of the
\* chain leave it; constructing an instance of any other type publishes
\* nothing.
C14_PublishedWhenComplete ==
    Constructed /\ last.op = "new" =>
        bus = IF HasFacet(inst, "Notificator") THEN <<inst>> ELSE <<>>

\* the instance the same arguments give when the two mixins are applied the
\* other way round
OtherWayRound == New(NsOverHttp, call.arguments).self

\* C15: for every argument list, the instance of HTTP(404, Namespaced('Api'))
\* and the instance of Namespaced('Api', HTTP(404)) have the same cause, the
\* same message and the same own enumerable properties.
C15_FacetOrder ==
    call.type = HttpOverNs /\ ~Fresh =>
        /\ IsRaise(inst) <=> IsRaise(OtherWayRound)
        /\ Constructed =>
              /\ inst.cause = OtherWayRound.cause
              /\ inst.props = OtherWayRound.props
              /\ inst.tpl = OtherWayRound.tpl
              /\ getMessage(inst).ret = getMessage(OtherWayRound).ret
              /\ last.op = "message"
                    => last.ret = getMessage(OtherWayRound).ret
              /\ last.op = "cause" => last.ret = cause(OtherWayRound).ret

\* C15 witness: cause, message and properties given to HTTP over Namespaced
C15_Witness ==
    /\ Constructed
    /\ call.type = HttpOverNs
    /\ call.arguments = <<Root, Plain, ObjA>>
    /\ inst.cause = Root
    /\ inst.props = << <<"a", NumV(1)>> >>
    /\ OtherWayRound.props = << <<"a", NumV(1)>> >>
    /\ last.op = "message"
    /\ last.ret = Plain

\* the instance the base class builds from the same arguments
Unfaceted == TherrorConstructor(Therror, call.arguments)

\* the message the caller supplies, if any
Supplied == getArguments(call.arguments).message

\* C16: an instance of WithMessage('User ${a}') has that template for its
\* message when the caller supplies no message, a cause with a message of its
\* own notwithstanding, and the caller's message otherwise; its cause and its
\* merged properties are those the base class gives for the same arguments.
C16_WithMessage ==
    Constructed /\ call.type = Templated =>
        /\ ~Truthy(Supplied) => inst.tpl = <<"User", " ", "${a}">>
        /\ Truthy(Supplied) => inst.tpl = ToText(Supplied)
        /\ inst.cause = Unfaceted.cause
        /\ inst.props = Unfaceted.props

\* the reason phrase of the status of the instance, that of 500 when the
\* registry has none
ReasonPhrase == Or(StatusOf(statusCode(inst)), StatusText(500))

\* C17: an instance of an HTTP type has the reason phrase of its status for
\* its message, that of 500 when the status is not in the registry, when the
\* caller gives no message, with or without a cause or properties; a message
\* the caller gives replaces it.
C17_DefaultMessage ==
    Constructed /\ HasFacet(inst, "HTTP") =>
        /\ ~Truthy(Supplied) => inst.tpl = ReasonPhrase.s
        /\ Truthy(Supplied) => inst.tpl = ToText(Supplied)

\* the instance of the same class declared without the mixin
Undecorated == New(Class(call.type.decl, <<>>), call.arguments).self

\* C20: an instance of class FatalError extends Namespaced('Server') is named
\* 'Server.' followed by the name it would have without the mixin, its
\* namespace reads 'Server', and its cause, message and properties are those
\* the class gives without the mixin.
C20_Namespaced ==
    Constructed /\ call.type = FatalError =>
        /\ inst.name = StrV(<<"Server", ".">> \o ToText(Undecorated.name))
        /\ namespace(inst) = StrV(<<"Server">>)
        /\ inst.cause = Undecorated.cause
        /\ inst.tpl = Undecorated.tpl
        /\ inst.props = Undecorated.props

\* the status each HTTP class of the service was declared with, as an integer
Configured(type) ==
    CASE type = UserNotFound -> NumV(404)
      [] type = Unavailable -> NumV(503)
      [] type = Defaulted -> NumV(500)
      [] type = Unrecognized -> NumV(2312332)
      [] type = ServerDown -> NumV(404)
      [] type \in {MessageOverHttp, HttpOverMessage} -> NumV(404)

\* C18: on every instance of an HTTP type statusCode reads as the integer the
\* type was declared with ('404' gives 404, none gives 500, 2312332 stays
\* 2312332), it is not an own enumerable property, and no property given to
\* the constructor or assigned later changes it.
C18_StatusCode ==
    Alive /\ HasFacet(inst, "HTTP") =>
        /\ statusCode(inst) = Configured(call.type)
        /\ ~HasKey(inst.props, "statusCode")
        /\ last.op = "statusCode" => last.ret = Configured(call.type)

\* C18 witness: an assignment to statusCode was attempted on an instance of
\* the 2312332 class, which still reads 2312332
C18_Witness ==
    /\ Alive
    /\ call.type = Unrecognized
    /\ last.op = "set"
    /\ last.arg = StrV(<<"statusCode">>)
    /\ statusCode(inst) = NumV(2312332)
    /\ inst.props = <<>>

\* the level each Loggable class of the service was declared with
Declared(type) ==
    CASE type = ServerDown -> "info"
      [] type = Logged -> "error"

\* the logger a call of log is for: the one of the opts when it has the
\* method of the level, otherwise the default one of that moment
Chosen(opts, method) ==
    IF opts # NoOpts /\ method \in opts.logger.methods
    THEN opts.logger
    ELSE logger

Chained == New(Explicit, call.arguments)

EntriesOf(type) ==
    {i \in 1..Len(STATUS_CODES) : ServerErrorAt(NumV(STATUS_CODES[i][1])) = type}

\* neither a cause nor a message among the arguments
NothingToSay(arguments) ==
    /\ ~Shifted(arguments)
    /\ \/ arguments = <<>>
       \/ IsObject(arguments[1]) /\ ~HasKey(arguments[1].kv, "message")

NameOfType(type) == New(type, <<>>).self.name

\* C23: the name of an instance comes from its type only, never from the
\* constructor arguments, and stays what it was when construction finished.
C23_IdentityFromType ==
    Constructed => inst.name = NameOfType(call.type)

\* the keys one properties entry brings, message and name apart (the first is
\* an accessor of the prototype, the second is defined non-enumerable)
KeysOfEntry(e, index) ==
    IF IsString(e) THEN <<ToString(index)>>
    ELSE SelectSeq(Keys(OwnEnumerable(e)),
                   LAMBDA k : k \notin {"message", "name"})

\* a key sequence without the later repetitions of a key
FirstOnly(keys) ==
    SelectSeq([i \in 1..Len(keys) |->
                  IF \E j \in 1..(i - 1) : keys[j] = keys[i] THEN "" ELSE keys[i]],
              LAMBDA k : k # "")

\* the keys of the properties entries in the order the entries bring them
RECURSIVE AllKeys(_, _)
AllKeys(entries, index) ==
    IF entries = <<>> THEN <<>>
    ELSE KeysOfEntry(Head(entries), index) \o AllKeys(Tail(entries), index + 1)

InsertionKeys(arguments) == FirstOnly(AllKeys(getArguments(arguments).properties, 0))

ArrV(items) == [t |-> "arr", items |-> items]
\* a function: the properties a call sets on `this` and what the call returns
FunV(sets, returns) == [t |-> "fun", sets |-> sets, returns |-> returns]

\* Object.prototype.toString.call(v), without the "[object ...]" wrapping
ClassOf(v) ==
    CASE v.t = "str" -> "String"
      [] v.t = "undef" -> "Undefined"
      [] v.t = "num" -> "Number"
      [] v.t = "arr" -> "Array"
      [] v.t = "fun" -> "Function"
      [] v.t \in {"err", "therror", "terr"} -> "Error"
      [] OTHER -> "Object"

\* Therror.__GLOBAL_NS_NAME
GLOBAL_NS_NAME == <<"__GLOBAL">>

\* array.join(' ')
RECURSIVE JoinSpace(_)
JoinSpace(texts) ==
    IF texts = <<>> THEN <<>>
    ELSE IF Len(texts) = 1 THEN texts[1]
    ELSE texts[1] \o <<" ">> \o JoinSpace(Tail(texts))

\* an own property of a 0.x error, or what Error.prototype gives for it
Own(self, k) ==
    IF HasKey(self.own, k) THEN Get(self.own, k)
    ELSE IF k = "message" THEN StrV(<<>>)
    ELSE Undef

\* JSON.stringify of what toJSON returned
RECURSIVE JSONText(_)
JSONEntries(kv) ==
    [i \in 1..Len(kv) |-> <<"\"", kv[i][1], "\"", ":">> \o JSONText(kv[i][2])]
RECURSIVE JoinComma(_)
JoinComma(texts) ==
    IF texts = <<>> THEN <<>>
    ELSE IF Len(texts) = 1 THEN texts[1]
    ELSE texts[1] \o <<",">> \o JoinComma(Tail(texts))
JSONText(v) ==
    CASE v.t = "str" -> <<"\"">> \o v.s \o <<"\"">>
      [] v.t = "num" -> <<ToString(v.n)>>
      [] v.t = "obj" -> <<"{">> \o JoinComma(JSONEntries(v.kv)) \o <<"}">>
      [] OTHER -> <<"null">>

\* TherrorBaseError.prototype.stringify
stringify(arg) ==
    IF ClassOf(arg) = "String" THEN arg
    ELSE IF arg.t = "undef" THEN StrV(<<"undefined">>)
    ELSE IF ClassOf(arg) = "Error"
         THEN IF arg.t = "err" THEN arg.msg
              ELSE IF arg.t = "terr" THEN Own(arg, "message")
              ELSE getMessage(arg).ret
    ELSE IF arg.t # "obj" \/ ~HasKey(arg.kv, "toJSON")
         THEN CASE arg.t = "num" -> StrV(<<ToString(arg.n)>>)
                [] arg.t = "arr" -> StrV(JoinComma([i \in 1..Len(arg.items) |->
                                                      ToText(arg.items[i])]))
                [] arg.t = "fun" -> StrV(<<"function">>)
                [] OTHER -> StrV(<<"[object Object]">>)
    ELSE StrV(JSONText(Get(arg.kv, "toJSON").returns))

\* the matches of /\{\d+\}/g and the number each one holds
Numbered == {"{0}", "{1}", "{2}", "{3}", "{4}"}
NumberOf(match) ==
    CASE match = "{0}" -> 0
      [] match = "{1}" -> 1
      [] match = "{2}" -> 2
      [] match = "{3}" -> 3
      [] OTHER -> 4

\* args.indexOf(target), counted from 1; 0 when it is not there
IndexOf(args, target) ==
    IF \E i \in 1..Len(args) : args[i] = target
    THEN CHOOSE i \in 1..Len(args) :
            args[i] = target /\ \A j \in 1..(i - 1) : args[j] # target
    ELSE 0

\* args.splice(start, 1), start counted from 1; start 0 stands for -1, which
\* addresses the last element
Splice1(args, at) ==
    LET start == IF at = 0 THEN Len(args) ELSE at
    IN  [i \in 1..(Len(args) - 1) |-> IF i < start THEN args[i] ELSE args[i + 1]]

\* msg.replace(/\{\d+\}/g, function(match) {...}): the text so far and the
\* clone of _args after the matches of msg were visited
RECURSIVE Replace(_, _, _, _)
Replace(msg, all, args, out) ==
    IF msg = <<>> THEN [text |-> out, args |-> args]
    ELSE IF Head(msg) \in Numbered /\ args # <<>>
         THEN Replace(Tail(msg), all,
                      Splice1(args, IndexOf(args, At(all, NumberOf(Head(msg))))),
                      out \o stringify(At(all, NumberOf(Head(msg)))).s)
    ELSE Replace(Tail(msg), all, args, out \o <<Head(msg)>>)

\* the text after the replacements, the blank and the arguments left over
Completed(r) ==
    Trim(r.text \o <<" ">>
         \o JoinSpace([i \in 1..Len(r.args) |-> stringify(r.args[i]).s]))

\* TherrorBaseError.prototype.getMessage
TherrorBaseError_getMessage(self, msg) ==
    IF ~Truthy(msg)
    THEN [self |-> self,
          ret |-> StrV(JoinSpace([i \in 1..Len(Own(self, "_args").items) |->
                                     stringify(Own(self, "_args").items[i]).s]))]
    ELSE IF ~IsString(msg) THEN [self |-> self, ret |-> Raise("TypeError")]
    ELSE [self |-> self,
          ret |-> StrV(Completed(Replace(msg.s, Own(self, "_args").items,
                                         Own(self, "_args").items, <<>>)))]

\* this[id] = options.errorData[id] for every key of errorData
RECURSIVE CopyData(_, _)
CopyData(own, kv) ==
    IF kv = <<>> THEN own
    ELSE CopyData(Put(own, Head(kv)[1], Head(kv)[2]), Tail(kv))

\* the name of a 0.x error
LegacyName(ns, type) ==
    IF ns # GLOBAL_NS_NAME THEN ns \o <<".">> \o type ELSE type

\* the object with the fields the constructor sets before it renders
Unrendered(id, options) ==
    [t |-> "terr",
     id |-> id,
     own |-> LET data == CopyData(<<>>, OwnEnumerable(Or(options.errorData, ObjV(<<>>))))
                 first == [t |-> "terr", id |-> id, own |-> data]
             IN  Put(Put(Put(Put(data,
                     "_namespace", StrV(Or(options.namespaceName, StrV(GLOBAL_NS_NAME)).s)),
                     "_type", Or(options.errorName, StrV(<<"GENERIC">>))),
                     "_args", Or(options.templateArgs, ArrV(<<>>))),
                     "_message", Own(first, "message"))]

\* function TherrorBaseError(options)
TherrorBaseError(id, options) ==
    LET self == Unrendered(id, options)
        m == TherrorBaseError_getMessage(self, Own(self, "message")).ret
    IN  IF IsRaise(m) THEN m
        ELSE [self EXCEPT !.own =
                 Put(Put(@, "message", m),
                     "name", StrV(LegacyName(Own(self, "_namespace").s,
                                             Own(self, "_type").s)))]

\* new TherrorNamespace(): the id stands for the identity of the object
TherrorNamespace(id) == [t |-> "namespace", id |-> id, members |-> <<>>]

\* the emitters of 'create'
OnNamespace(id) == [on |-> "namespace", id |-> id]
OnTherror == [on |-> "therror", id |-> 0]

\* _errorConstructorFactory(args, options, therror), bound to the namespace
errorConstructorFactory(where, args, options) ==
    [t |-> "factory",
     owner |-> where.id,
     namespaceName |-> args.namespaceName,
     errorName |-> args.errorName,
     errorData |-> args.errorData,
     options |-> options]

\* the properties of the customization object, copied when it is an object
Customized(error, options) ==
    IF Truthy(options) /\ ClassOf(options) = "Object"
    THEN [error EXCEPT !.own = CopyData(@, OwnEnumerable(options))]
    ELSE error

\* error.init.call(error) when init is a function
Initialized(error) ==
    IF ClassOf(Own(error, "init")) = "Function"
    THEN [error EXCEPT !.own = CopyData(@, Own(error, "init").sets)]
    ELSE error

\* mutant: the events leave before the customization is applied
errorConstructorEarly(factory, templateArgs, id) ==
    LET error == TherrorBaseError(id, [namespaceName |-> StrV(factory.namespaceName),
                                       errorName |-> StrV(<<factory.errorName>>),
                                       errorData |-> factory.errorData,
                                       templateArgs |-> ArrV(templateArgs)])
    IN  IF IsRaise(error) THEN [ret |-> error, published |-> <<>>]
        ELSE [ret |-> Initialized(Customized(error, factory.options)),
              published |-> <<[emitter |-> OnNamespace(factory.owner),
                               event |-> "create", error |-> error],
                              [emitter |-> OnTherror,
                               event |-> "create", error |-> error]>>]

\* function errorConstructor(): what it returns and what it emits, in order
errorConstructor(factory, templateArgs, id) ==
    LET error == TherrorBaseError(id, [namespaceName |-> StrV(factory.namespaceName),
                                       errorName |-> StrV(<<factory.errorName>>),
                                       errorData |-> factory.errorData,
                                       templateArgs |-> ArrV(templateArgs)])
    IN  IF IsRaise(error) THEN [ret |-> error, published |-> <<>>]
        ELSE [ret |-> Initialized(Customized(error, factory.options)),
              published |->
                  <<[emitter |-> OnNamespace(factory.owner), event |-> "create",
                     error |-> Initialized(Customized(error, factory.options))],
                    [emitter |-> OnTherror, event |-> "create",
                     error |-> Initialized(Customized(error, factory.options))]>>]

\* where[errorName] = where._errorConstructorFactory(...) for every key
RECURSIVE Factories(_, _, _, _)
Factories(where, ns, errDesc, opt) ==
    IF errDesc = <<>> THEN where
    ELSE Factories([where EXCEPT !.members =
                       Put(@, Head(errDesc)[1],
                           errorConstructorFactory(where,
                               [namespaceName |-> ns,
                                errorName |-> Head(errDesc)[1],
                                errorData |-> Head(errDesc)[2]], opt))],
                   ns, Tail(errDesc), opt)

\* what the factories of ./errors give: errors of the THERROR namespace
NAMESPACE_NAME_NEEDED == Raise("THERROR.NAMESPACE_NAME_NEEDED")
ERROR_DESCRIPTION_NEEDED == Raise("THERROR.ERROR_DESCRIPTION_NEEDED")

\* the namespace, the descriptions and the customization register works on
Resolved(namespaceName, errorDescriptions, options) ==
    IF ClassOf(namespaceName) = "Object"
    THEN [t |-> "call", ns |-> GLOBAL_NS_NAME, errDesc |-> namespaceName,
          opt |-> errorDescriptions]
    ELSE IF ~Truthy(namespaceName) \/ ClassOf(namespaceName) # "String"
    THEN NAMESPACE_NAME_NEEDED
    ELSE IF ~Truthy(errorDescriptions) \/ ClassOf(errorDescriptions) # "Object"
    THEN ERROR_DESCRIPTION_NEEDED
    ELSE [t |-> "call", ns |-> namespaceName.s, errDesc |-> errorDescriptions,
          opt |-> options]

\* this._namespaces[ns] || (this._namespaces[ns] = new TherrorNamespace())
Where(registry, ns) ==
    IF HasKey(registry, ns) THEN Get(registry, ns)
    ELSE TherrorNamespace(Len(registry) + 1)

\* mutant: a namespace object of its own for every registration
Therror_registerAfresh(registry, namespaceName, errorDescriptions, options) ==
    LET r == Resolved(namespaceName, errorDescriptions, options)
    IN  IF IsRaise(r) THEN [namespaces |-> registry, ret |-> r]
        ELSE LET where == Factories(TherrorNamespace(Len(registry) + 2), r.ns,
                                    OwnEnumerable(r.errDesc), r.opt)
             IN  [namespaces |-> Put(registry, r.ns, where), ret |-> where]

\* Therror.prototype.register
Therror_register(registry, namespaceName, errorDescriptions, options) ==
    LET r == Resolved(namespaceName, errorDescriptions, options)
    IN  IF IsRaise(r) THEN [namespaces |-> registry, ret |-> r]
        ELSE LET where == Factories(Where(registry, r.ns), r.ns,
                                    OwnEnumerable(r.errDesc), r.opt)
             IN  [namespaces |-> Put(registry, r.ns, where), ret |-> where]

\* Therror.prototype.namespace
Therror_namespace(registry, namespaceName) ==
    Get(registry, ToText(Or(namespaceName, StrV(GLOBAL_NS_NAME))))

(***************************************************************************)
(* The 0.x API as a state machine.                                         *)
(***************************************************************************)
\* therror.register(namespaceName, errorDescriptions, options)
Register(namespaceName, errorDescriptions, options) ==
    /\ LET r == Therror_register(namespaces, namespaceName, errorDescriptions, options)
       IN  /\ namespaces' = r.namespaces
           /\ last' = [op |-> "register",
                       arg |-> ArrV(<<namespaceName, errorDescriptions, options>>),
                       ret |-> r.ret]
    /\ UNCHANGED <<inst, call, bus, logger, published, allocated>>

\* therror.namespace(namespaceName)
Namespace(namespaceName) ==
    /\ last' = [op |-> "namespace", arg |-> namespaceName,
                ret |-> Therror_namespace(namespaces, namespaceName)]
    /\ UNCHANGED <<inst, call, bus, logger, namespaces, published, allocated>>

\* therror.namespace(namespaceName)[errorName](...templateArgs)
Create(namespaceName, errorName, templateArgs) ==
    /\ allocated < MaxCreated
    /\ Therror_namespace(namespaces, namespaceName).t = "namespace"
    /\ HasKey(Therror_namespace(namespaces, namespaceName).members, errorName)
    /\ LET factory == Get(Therror_namespace(namespaces, namespaceName).members,
                          errorName)
           r == errorConstructor(factory, templateArgs, allocated + 1)
       IN  /\ inst' = r.ret
           /\ published' = r.published
           /\ call' = [type |-> factory, arguments |-> templateArgs]
           /\ last' = [op |-> "create", arg |-> StrV(<<errorName>>), ret |-> r.ret]
    /\ allocated' = allocated + 1
    /\ UNCHANGED <<bus, logger, namespaces>>

\* error.getMessage(msg)
GetMessage(msg) ==
    /\ inst.t = "terr"
    /\ LET r == TherrorBaseError_getMessage(inst, msg)
       IN  /\ inst' = r.self
           /\ last' = [op |-> "getMessage", arg |-> msg, ret |-> r.ret]
    /\ UNCHANGED <<call, bus, logger, namespaces, published, allocated>>

\* what register and the factories are given
NS == StrV(<<"NS">>)
Numbered4 == NumV(4)
NoItems == ArrV(<<>>)
DescA == ObjV(<< <<"ERR", ObjV(<<>>)>> >>)
DescB == ObjV(<< <<"ERR2", ObjV(<< <<"foo", NumV(1)>> >>)>>,
                 <<"ERR", ObjV(<< <<"bar", StrV(<<"baz">>)>> >>)>> >>)
Customs == ObjV(<< <<"init", FunV(<< <<"initialized", StrV(<<"yes">>)>> >>, Undef)>>,
                   <<"space", StrV(<<"jam">>)>> >>)
NamePool == {Undef, Empty, NS, Numbered4}
DescPool == {Undef, NoItems, DescA, DescB}
CustomPool == {Undef, Customs}
LookupPool == {Undef, NS, StrV(GLOBAL_NS_NAME)}
ErrorNames == {"ERR", "ERR2"}

\* registrations and lookups
NextLegacy ==
    \/ \E n \in NamePool, d \in DescPool, o \in CustomPool : Register(n, d, o)
    \/ \E d \in {DescA, DescB}, o \in CustomPool : Register(d, o, Undef)
    \/ \E n \in LookupPool : Namespace(n)

SpecLegacy == Init /\ [][NextLegacy]_vars

\* the namespace a register call addresses: the global one when the first
\* argument is the descriptions object
Addressed(arguments) ==
    IF ClassOf(arguments[1]) = "Object" THEN GLOBAL_NS_NAME ELSE arguments[1].s

\* the descriptions object of a register call
Described(arguments) ==
    IF ClassOf(arguments[1]) = "Object" THEN arguments[1] ELSE arguments[2]

\* a register call that the documentation says must throw
Refused(arguments) ==
    /\ ClassOf(arguments[1]) # "Object"
    /\ \/ arguments[1] \in {Undef, Empty}
       \/ ClassOf(arguments[1]) # "String"
       \/ arguments[2] = Undef
       \/ ClassOf(arguments[2]) # "Object"

\* every namespace of the registry is still there afterwards, the same object,
\* with every error name it had
Kept ==
    \A i \in 1..Len(namespaces) :
        /\ HasKey(namespaces', namespaces[i][1])
        /\ Get(namespaces', namespaces[i][1]).id = namespaces[i][2].id
        /\ \A k \in 1..Len(namespaces[i][2].members) :
              /\ HasKey(Get(namespaces', namespaces[i][1]).members,
                        namespaces[i][2].members[k][1])
              /\ Get(Get(namespaces', namespaces[i][1]).members,
                     namespaces[i][2].members[k][1]).t = "factory"

\* what a register call that has just returned leaves
Registered ==
    last.op = "register" =>
        IF Refused(last.arg.items)
        THEN IsRaise(last.ret)
        ELSE /\ last.ret.t = "namespace"
             /\ last.ret = Get(namespaces, Addressed(last.arg.items))
             /\ \A k \in 1..Len(Described(last.arg.items).kv) :
                   HasKey(last.ret.members, Described(last.arg.items).kv[k][1])

\* what a lookup gives
LookedUp ==
    last.op = "namespace" =>
        /\ last.arg = Undef => last.ret = Get(namespaces, GLOBAL_NS_NAME)
        /\ last.arg # Undef => last.ret = Get(namespaces, last.arg.s)

Nice == StrV(<<"nice">>)

\* registrations that succeed and calls of the factories they leave
NextFactories ==
    \/ \E o \in CustomPool : Register(NS, DescB, o)
    \/ \E o \in CustomPool : Register(DescA, o, Undef)
    \/ \E n \in {NS, Undef}, errorName \in ErrorNames,
          templateArgs \in ArgLists({Nice}, MaxTemplateArgs) :
          Create(n, errorName, templateArgs)

SpecFactories == Init /\ [][NextFactories]_vars

\* the error carries the description properties, the customization properties
\* and what init set
Complete(error, factory) ==
    /\ \A i \in 1..Len(factory.errorData.kv) :
          ~HasKey(OwnEnumerable(factory.options), factory.errorData.kv[i][1])
             => Own(error, factory.errorData.kv[i][1]) = factory.errorData.kv[i][2]
    /\ \A i \in 1..Len(OwnEnumerable(factory.options)) :
          Own(error, factory.options.kv[i][1]) = factory.options.kv[i][2]
    /\ HasKey(OwnEnumerable(factory.options), "init")
          => Own(error, "initialized") = StrV(<<"yes">>)

\* C26: a call of a registered factory returns a new Error and emits 'create'
\* once on the namespace of the error and then once on therror, both with the
\* returned error, which already has the description properties, the
\* customization properties and the effect of init.
C26_CreateEvents ==
    [][last'.op = "create" /\ allocated' # allocated =>
          /\ inst'.t = "terr"
          /\ last'.ret = inst'
          /\ inst.t = "terr" => inst'.id # inst.id
          /\ inst'.id > allocated
          /\ Len(published') = 2
          /\ published'[1].emitter
                = OnNamespace(Get(namespaces, call'.type.namespaceName).id)
          /\ published'[2].emitter = OnTherror
          /\ \A i \in 1..2 :
                /\ published'[i].event = "create"
                /\ published'[i].error = inst'
                /\ Complete(published'[i].error, call'.type)]_vars

\* C26 witness: NS.ERR2('nice') of a namespace registered with customs
C26_Witness ==
    /\ last.op = "create"
    /\ call.arguments = <<Nice>>
    /\ Own(inst, "name") = StrV(<<"NS", ".", "ERR2">>)
    /\ Own(inst, "message") = Nice
    /\ Len(published) = 2
    /\ Own(published[1].error, "initialized") = StrV(<<"yes">>)
    /\ Own(published[2].error, "space") = StrV(<<"jam">>)
    /\ Own(published[2].error, "foo") = NumV(1)

\* descriptions with the message templates of the documentation and tests
Is == StrV(<<"is">>)
Unused == StrV(<<"unused">>)
Swap == StrV(<<"This", " ", "{2}", " ", "{1}">>)
Gap == StrV(<<"This", " ", "{1}", " ", "unfortunately", " ", "{2}">>)
Far == StrV(<<"A", " ", "{3}", " ", "{1}">>)
Twice == StrV(<<"{1}", " ", "and", " ", "{1}">>)
Fixed == StrV(<<"Error", " ", "description">>)
DescT == ObjV(<< <<"SWAP", ObjV(<< <<"message", Swap>> >>)>>,
                 <<"GAP", ObjV(<< <<"message", Gap>> >>)>>,
                 <<"FAR", ObjV(<< <<"message", Far>> >>)>>,
                 <<"TWICE", ObjV(<< <<"message", Twice>> >>)>>,
                 <<"FIXED", ObjV(<< <<"message", Fixed>> >>)>>,
                 <<"ERR", ObjV(<<>>)>> >>)
TemplateNames == {"SWAP", "GAP", "FAR", "TWICE", "FIXED", "ERR"}
TemplateArgPool == {Is, Unused, Undef, Root}
LegacyTemplates == {Undef, Swap, Gap, Far}

\* errors made from templates, and their messages computed again
NextTemplates ==
    \/ Register(NS, DescT, Undef)
    \/ \E errorName \in TemplateNames,
          templateArgs \in ArgLists(TemplateArgPool, MaxTemplateArgs) :
          Create(NS, errorName, templateArgs)
    \/ \E msg \in LegacyTemplates : GetMessage(msg)

SpecTemplates == Init /\ [][NextTemplates]_vars

\* the template with every {n}, 1 <= n <= k, replaced by the n-th argument
Substituted(msg, args) ==
    LET piece(tok) == IF tok \in Numbered /\ NumberOf(tok) \in 1..Len(args)
                      THEN stringify(args[NumberOf(tok)]).s
                      ELSE <<tok>>
        RECURSIVE all(_)
        all(m) == IF m = <<>> THEN <<>> ELSE piece(Head(m)) \o all(Tail(m))
    IN  all(msg)

\* the arguments no placeholder of the template refers to
Unreferenced(msg, args) ==
    LET named == {NumberOf(msg[i]) : i \in {j \in 1..Len(msg) : msg[j] \in Numbered}}
        keep == {i \in 1..Len(args) : i \notin named}
        RECURSIVE from(_)
        from(i) == IF i > Len(args) THEN <<>>
                   ELSE (IF i \in keep THEN <<stringify(args[i]).s>> ELSE <<>>)
                        \o from(i + 1)
    IN  from(1)

\* the message the documentation describes
Documented(msg, args) ==
    IF ~Truthy(msg)
    THEN JoinSpace([i \in 1..Len(args) |-> stringify(args[i]).s])
    ELSE Trim(Substituted(msg.s, args) \o <<" ">>
              \o JoinSpace(Unreferenced(msg.s, args)))

\* C27: the message of a 0.x error is its template with every {n}, n <= k,
\* replaced by the n-th creation argument, every {n}, n > k, left as written,
\* and the arguments no placeholder refers to appended; without a template it
\* is the arguments joined by blanks; computing it leaves _args as it was.
C27_LegacyMessage ==
    inst.t = "terr" =>
        /\ Own(inst, "_args") = ArrV(call.arguments)
        /\ Own(inst, "message").s = Documented(Own(inst, "_message"), call.arguments)
        /\ last.op = "getMessage"
              => last.ret.s = Documented(last.arg, call.arguments)

\* (message, p1, p2) or (cause, message, p1, p2) with two plain mappings
TwoMappings(arguments) ==
    \/ /\ Len(arguments) = 3
       /\ IsString(arguments[1])
       /\ arguments[2].t = "obj" /\ arguments[3].t = "obj"
    \/ /\ Len(arguments) = 4
       /\ IsError(arguments[1]) /\ IsString(arguments[2])
       /\ arguments[3].t = "obj" /\ arguments[4].t = "obj"

\* C28: a type with the WithMessage or the HTTP mixin, built from (message,
\* p1, p2) or (cause, message, p1, p2), has the keys of both p1 and p2, as the
\* base class has for the same arguments.
C28_SeveralMappings ==
    /\ Constructed
    /\ HasFacet(inst, "WithMessage") \/ HasFacet(inst, "HTTP")
    /\ TwoMappings(call.arguments)
    => /\ \A k \in EntryKeys(SubSeq(call.arguments, Len(call.arguments) - 1,
                                    Len(call.arguments)), 0) :
             HasKey(inst.props, k)
       /\ inst.props = Unfaceted.props

\* C29: WithMessage('User ${a}') over HTTP(404) and HTTP(404) over
\* WithMessage('User ${a}') give the same message: the template of WithMessage
\* when the caller supplies none, the caller's message otherwise.
C29_Commutes ==
    Constructed /\ call.type \in {MessageOverHttp, HttpOverMessage} =>
        /\ ~Truthy(Supplied) => inst.tpl = <<"User", " ", "${a}">>
        /\ Truthy(Supplied) => inst.tpl = ToText(Supplied)
        /\ inst.tpl = New(MessageOverHttp, call.arguments).self.tpl
        /\ inst.tpl = New(HttpOverMessage, call.arguments).self.tpl

\* C30: when an instance of a precreated ServerError class is published, it
\* already bears the name it ends up with, the PascalCase reason phrase of
\* its status.
C30_NamedWhenPublished ==
    Constructed /\ call.type \in {ServerErrorAt(k) : k \in ServerErrorKeys} =>
        /\ Len(bus) = 1
        /\ bus[1].name = inst.name
        /\ \A i \in EntriesOf(call.type) :
              bus[1].name = StrV(PascalCase(STATUS_CODES[i][2]))

=========================================================================
